---- MODULE Spec2Model ----
(***************************************************************************)
(* TopDog3D, src/main.js: an endless-runner frame loop.  The file holds    *)
(* two scripts one after the other: the first loop (lines 1-158: lanes,    *)
(* keyboard, fixed spawn interval, moving obstacles) and the themed loop   *)
(* (lines 160-730: themes, asset cache, difficulty, typed collisions).     *)
(* variant says which of the two scripts is running.                       *)
(*                                                                         *)
(* Numbers are fixed point with three decimals: a position, a distance or  *)
(* a time of the source is multiplied by 1000 (0.1 is 100, 2.0 s is 2000). *)
(* Floating-point rounding is not modelled.                                *)
(***************************************************************************)
EXTENDS Integers, Sequences, FiniteSets, Bags, TLC

\* ------------------------------------------------------------ bounds
\* Frames a behaviour processes.
MaxFrames == 2
\* Asset loads that may be in flight at once.
MaxPending == 2
\* Frames the first loop has processed when it is observed mid-run.
InFlightFrames == 301
\* Longest live set handed to the removal pass.
MaxLive == 3

\* ------------------------------------------------ program constants
\* first loop (main.js 30-54)
spawnZPosition == -20000
removalZPosition == 10000
obstacleSpeed == 100
spawnInterval == 2000
distanceFactor == 50
\* themed loop (main.js 291-312, 406, 470, 495)
baseSpawnInterval == 2000
spawnIntervalReductionFactor == 100
difficultyStepDistance == 150000
minSpawnInterval == 750
maxObstaclesInScene == 15
maxObstaclesPerTheme == 5
playerSpeed == 5
themedRemovalZ == 20000

\* lanePositions of the first loop (main.js 30) and of the themed loop (298)
lanePositions == <<-2000, 0, 2000>>
themedLanePositions == <<-2500, 0, 2500>>

\* obstacleModelFiles of the first loop (main.js 41)
firstModelFiles ==
    <<"smallhoop.glb", "largehoop.glb", "ringette_ring.glb", "table.glb", "jump1.glb">>

\* obstacleThemes and themeKeys (main.js 301-308)
themeKeys == <<"jumps", "tunnels", "hoops", "technical">>

obstacleThemes(name) ==
    CASE name = "jumps" -> <<"jump1.glb", "jump2.glb", "jump3.glb", "table.glb", "teeter.glb">>
      [] name = "tunnels" -> <<"CoveredTunnel.glb", "TunnelBendLarge.glb", "TunnelBendSmall.glb", "tunnelline.glb">>
      [] name = "hoops" -> <<"smallhoop.glb", "largehoop.glb", "ringette_ring.glb">>
      [] name = "technical" -> <<"slalom.glb", "swingboard.glb">>
      [] OTHER -> <<>>

\* ------------------------------------------------------- strings
\* The characters of an obstacle identifier, so that toLowerCase() and
\* includes() are computed and not assumed.
Chars(f) ==
    CASE
       f = "CoveredTunnel.glb" -> <<"C","o","v","e","r","e","d","T","u","n","n","e","l",".","g","l","b">>
    [] f = "jump1.glb" -> <<"j","u","m","p","1",".","g","l","b">>
    [] f = "jump2.glb" -> <<"j","u","m","p","2",".","g","l","b">>
    [] f = "jump3.glb" -> <<"j","u","m","p","3",".","g","l","b">>
    [] f = "largehoop.glb" -> <<"l","a","r","g","e","h","o","o","p",".","g","l","b">>
    [] f = "ringette_ring.glb" -> <<"r","i","n","g","e","t","t","e","_","r","i","n","g",".","g","l","b">>
    [] f = "slalom.glb" -> <<"s","l","a","l","o","m",".","g","l","b">>
    [] f = "smallhoop.glb" -> <<"s","m","a","l","l","h","o","o","p",".","g","l","b">>
    [] f = "swingboard.glb" -> <<"s","w","i","n","g","b","o","a","r","d",".","g","l","b">>
    [] f = "table.glb" -> <<"t","a","b","l","e",".","g","l","b">>
    [] f = "teeter.glb" -> <<"t","e","e","t","e","r",".","g","l","b">>
    [] f = "TunnelBendLarge.glb" -> <<"T","u","n","n","e","l","B","e","n","d","L","a","r","g","e",".","g","l","b">>
    [] f = "TunnelBendSmall.glb" -> <<"T","u","n","n","e","l","B","e","n","d","S","m","a","l","l",".","g","l","b">>
    [] f = "tunnelline.glb" -> <<"t","u","n","n","e","l","l","i","n","e",".","g","l","b">>
    [] OTHER -> <<>>

Upper == <<"A","B","C","D","E","F","G","H","I","J","K","L","M","N","O","P","Q","R","S","T","U","V","W","X","Y","Z">>
Lower == <<"a","b","c","d","e","f","g","h","i","j","k","l","m","n","o","p","q","r","s","t","u","v","w","x","y","z">>

\* A comparison that forgot to fold the case.
toLowerCaseMissing(s) == s

\* toLowerCase, one character
LowerChar(c) ==
    IF \E i \in 1..Len(Upper) : Upper[i] = c
    THEN Lower[CHOOSE i \in 1..Len(Upper) : Upper[i] = c]
    ELSE c

\* String.prototype.toLowerCase
toLowerCase(s) == [i \in 1..Len(s) |-> LowerChar(s[i])]

\* String.prototype.includes
includes(s, sub) ==
    \E k \in 0..(Len(s) - Len(sub)) : \A j \in 1..Len(sub) : s[k + j] = sub[j]

\* ------------------------------------------------------------- state
VARIABLES
    variant,            \* "first" or "themed": which script of main.js runs
    isGameOver,
    distanceCovered,
    currentLaneIndex,   \* first loop only, 0-based as in the source
    playerX,            \* playerCube.position.x
    obstacles,          \* sequence of [id, type, x, z, half]
    pendingLoads,       \* bag of gltfLoader.load requests in flight: [file, x]
    loadedObstacleAssets, \* themed loop: the cache, a function file -> asset
    lastSpawnTime,
    clockTime,          \* first: the last rAF timestamp; themed: clock.elapsedTime
    currentThemeIndex,  \* 0-based
    currentThemeName,
    obstaclesSpawnedInCurrentTheme,
    nextId,             \* identity of the next obstacle object created
    started,            \* the script's own first call of animate has run
    frames,             \* frames processed in this behaviour
    runFrames,          \* frames that ran the gameplay branch since the start
    frameLog,           \* what the most recent callback did, in order
    themeCatalog        \* the obstacleThemes object the script reads: a
                        \* function theme name -> sequence of identifiers

vars == <<variant, isGameOver, distanceCovered, currentLaneIndex, playerX,
          obstacles, pendingLoads, loadedObstacleAssets, lastSpawnTime,
          clockTime, currentThemeIndex, currentThemeName,
          obstaclesSpawnedInCurrentTheme, nextId, started, frames, runFrames,
          frameLog, themeCatalog>>

\* The obstacleThemes object as main.js 301-307 writes it.
sourceCatalog ==
    [t \in {themeKeys[i] : i \in 1..Len(themeKeys)} |-> obstacleThemes(t)]

\* ------------------------------------------------------- inputs
\* Time between two frames, in ms (requestAnimationFrame / THREE.Clock).
FrameDeltas == {1000, 2000}
\* Half the depth (z extent) of a loaded asset's bounding box; the assets
\* are external files, so their geometry is an input.
HalfDepths == {500, 25000}
\* -Math.random() * 50 - 20 of the themed spawn, sampled
SpawnZSamples == {-20000, -45000}
\* Math.floor(Math.random() * lanePositions.length) of the themed spawn,
\* sampled: a side lane and the player's lane
ThemedLaneSamples == {0, 1}
Keys == {"ArrowLeft", "ArrowRight", "a"}

\* One entry of frameLog: what was done, and to which obstacle (or with which value).
Event(op, arg) == [op |-> op, arg |-> arg]

\* --------------------------------------------------------- geometry
\* Half the edge of the player cube: BoxGeometry(1,1,1) and (0.5,0.5,0.5).
playerHalf == IF variant = "first" THEN 500 ELSE 250

\* Box3.intersectsBox of the player's box (centred at z = 0) and the
\* obstacle's: closed intervals, so touching boxes intersect.  The boxes
\* overlap in x and y when the obstacle stands in the player's lane.
intersectsBox(px, o) ==
    /\ o.x = px
    /\ o.z + o.half >= 0 - playerHalf
    /\ o.z - o.half <= 0 + playerHalf

Max(a, b) == IF a >= b THEN a ELSE b

\* An elapsed time that exceeds every spawn interval: two base intervals.
LiveElapsedCap == 2 * baseSpawnInterval

\* A splice that takes the first entry whatever the index.
spliceFirst(arr, i) == Tail(arr)

\* Array.prototype.splice(i, 1), 1-based here
splice(arr, i) == [k \in 1..(Len(arr) - 1) |-> IF k < i THEN arr[k] ELSE arr[k + 1]]

\* A push that a finished game cancels.
pushUnlessGameOver(arr, o) == IF isGameOver THEN arr ELSE Append(arr, o)

\* obstacles.push(loadedModel) (main.js 90, 353, 386)
push(arr, o) == Append(arr, o)

\* One more request in flight / one request settled.
AddLoad(bag, req) == bag (+) SetToBag({req})
DropLoad(bag, req) == bag (-) SetToBag({req})

\* An error callback that puts the request back in flight.
onErrorRetry(bag, req) == bag

\* The error callback of gltfLoader.load (main.js 93-96, 390-392): the
\* request is settled, and nothing else happens.
onError(bag, req) == DropLoad(bag, req)

\* A frame loop that lost its game-over guard.
gameplayRunsAlways == TRUE

\* if (!isGameOver) of both animate functions (main.js 103, 402)
gameplayRuns == ~isGameOver

\* ======================================================= first loop
\* A key handler that forgot the boundary tests.
moveLaneUnclamped(idx, key) ==
    IF key = "ArrowLeft" THEN idx - 1
    ELSE IF key = "ArrowRight" THEN idx + 1 ELSE idx

\* A key handler in which every other key moves right.
moveLaneAnyKey(idx, key) ==
    IF key = "ArrowLeft"
    THEN (IF idx > 0 THEN idx - 1 ELSE idx)
    ELSE (IF idx < Len(lanePositions) - 1 THEN idx + 1 ELSE idx)

\* keydown handler (main.js 58-70): the lane index after the key
moveLane(idx, key) ==
    IF key = "ArrowLeft"
    THEN (IF idx > 0 THEN idx - 1 ELSE idx)
    ELSE IF key = "ArrowRight"
         THEN (IF idx < Len(lanePositions) - 1 THEN idx + 1 ELSE idx)
         ELSE idx

\* A key handler that keeps listening after the game is over.
keyIgnoredNever == FALSE

\* if (isGameOver) return; (main.js 59)
keyIgnored == isGameOver

KeyDown(key) ==
    /\ variant = "first"
    /\ currentLaneIndex' = IF keyIgnored THEN currentLaneIndex
                           ELSE moveLane(currentLaneIndex, key)
    /\ frameLog' = <<Event(key, currentLaneIndex)>>
    /\ UNCHANGED <<variant, themeCatalog, isGameOver, distanceCovered, playerX, obstacles,
                   pendingLoads, loadedObstacleAssets, lastSpawnTime, clockTime,
                   currentThemeIndex, currentThemeName,
                   obstaclesSpawnedInCurrentTheme, nextId, started, frames,
                   runFrames>>

\* spawn check of the first loop (main.js 111)
firstSpawnDue(currentTime, last) == currentTime - last > spawnInterval

\* A removal test that never fires.
pastRemovalNever(o) == FALSE

\* Remove off-screen obstacles: the test of main.js 133
pastRemoval(o) == o.z > removalZPosition

\* A distance that forgets what was accumulated.
firstDistanceUpdateReset(distance) == distanceFactor

\* Update distance (main.js 143)
firstDistanceUpdate(distance) == distance + distanceFactor

\* The for loop of the first animate (main.js 119-140), from index i down:
\* move, test for collision (break on a hit), remove when past the threshold.
RECURSIVE firstObstacleLoop(_, _, _, _)
firstObstacleLoop(obs, i, px, log) ==
    IF i = 0
    THEN [obs |-> obs, over |-> FALSE, log |-> log]
    ELSE LET o == [obs[i] EXCEPT !.z = @ + obstacleSpeed]
             moved == [obs EXCEPT ![i] = o]
             log1 == log \o <<Event("move", o.id), Event("test", o.id)>>
         IN  IF intersectsBox(px, o)
             THEN [obs |-> moved, over |-> TRUE,
                   log |-> log1 \o <<Event("gameOver", o.id)>>]
             ELSE IF pastRemoval(o)
                  THEN firstObstacleLoop(splice(moved, i), i - 1, px,
                                         log1 \o <<Event("remove", o.id)>>)
                  ELSE firstObstacleLoop(moved, i - 1, px, log1)

\* spawnObstacle() of the first script (main.js 72-98): the request put in
\* flight.  randomModelFilename only selects the file that is fetched; the
\* obstacle keeps no trace of it, and the asset's geometry is an input of the
\* completion.
spawnObstacleFirst(randomLaneIndex) ==
    AddLoad(pendingLoads, [file |-> "any", x |-> lanePositions[randomLaneIndex + 1]])

\* A frame that checks the spawn timer before it snaps the player.
frameHeadSpawnFirst(due) ==
    <<Event("spawnCheck", 0)>> \o (IF due THEN <<Event("spawn", 0)>> ELSE <<>>)
    \o <<Event("snap", 0)>>

\* The statements of the first animate before its for loop (main.js 104-114):
\* the lane snap, then the spawn check and, when due, the spawn.
frameHead(due) ==
    <<Event("snap", 0), Event("spawnCheck", 0)>>
    \o (IF due THEN <<Event("spawn", 0)>> ELSE <<>>)

\* animate(currentTime) of the first script (main.js 100-148).  The braces of
\* the source do not balance; the indentation is followed: the distance
\* update is inside if (!isGameOver), after the for loop.
AnimateFirst(dt) ==
    /\ variant = "first"
    /\ frames < MaxFrames
    /\ LET currentTime == IF started THEN clockTime + dt ELSE 0
           px == lanePositions[currentLaneIndex + 1]
           due == firstSpawnDue(currentTime, lastSpawnTime)
           loop == firstObstacleLoop(obstacles, Len(obstacles), px, frameHead(due))
       IN  /\ started' = TRUE
           /\ frames' = frames + 1
           /\ clockTime' = currentTime
           /\ IF ~gameplayRuns
              THEN /\ frameLog' = <<Event("render", 0)>>
                   /\ UNCHANGED <<isGameOver, distanceCovered, playerX, obstacles,
                                  pendingLoads, lastSpawnTime, runFrames>>
              ELSE /\ playerX' = px
                   /\ due => BagCardinality(pendingLoads) < MaxPending
                   /\ IF due
                      THEN \E lane \in 0..(Len(lanePositions) - 1) :
                               pendingLoads' = spawnObstacleFirst(lane)
                      ELSE pendingLoads' = pendingLoads
                   /\ lastSpawnTime' = IF due THEN currentTime ELSE lastSpawnTime
                   /\ obstacles' = loop.obs
                   /\ isGameOver' = loop.over
                   /\ distanceCovered' = firstDistanceUpdate(distanceCovered)
                   /\ runFrames' = runFrames + 1
                   /\ frameLog' = loop.log \o <<Event("distance", 0), Event("render", 0)>>
    /\ UNCHANGED <<variant, themeCatalog, currentLaneIndex, loadedObstacleAssets,
                   currentThemeIndex, currentThemeName,
                   obstaclesSpawnedInCurrentTheme, nextId>>

\* onLoad of the first spawnObstacle (main.js 79-91)
LoadCompleteFirst(req, half) ==
    /\ variant = "first"
    /\ BagIn(req, pendingLoads)
    /\ pendingLoads' = DropLoad(pendingLoads, req)
    /\ obstacles' = push(obstacles,
           [id |-> nextId, type |-> "none", x |-> req.x, z |-> spawnZPosition,
            half |-> half])
    /\ nextId' = nextId + 1
    /\ frameLog' = <<Event("loaded", nextId)>>
    /\ UNCHANGED <<variant, themeCatalog, isGameOver, distanceCovered, currentLaneIndex, playerX,
                   loadedObstacleAssets, lastSpawnTime, clockTime,
                   currentThemeIndex, currentThemeName,
                   obstaclesSpawnedInCurrentTheme, started, frames, runFrames>>

\* onError of the first spawnObstacle (main.js 93-96)
LoadErrorFirst(req) ==
    /\ variant = "first"
    /\ BagIn(req, pendingLoads)
    /\ pendingLoads' = onError(pendingLoads, req)
    /\ frameLog' = <<Event("loadError", 0)>>
    /\ UNCHANGED <<variant, themeCatalog, isGameOver, distanceCovered, currentLaneIndex, playerX,
                   obstacles, loadedObstacleAssets, lastSpawnTime, clockTime,
                   currentThemeIndex, currentThemeName,
                   obstaclesSpawnedInCurrentTheme, nextId, started, frames,
                   runFrames>>

\* ====================================================== themed loop
\* obstacleType.toLowerCase().includes(word) (main.js 430, 441); a missing
\* type (null) is falsy.
typeIncludes(type, word) ==
    /\ type # "none"
    /\ includes(toLowerCase(Chars(type)), word)

\* Every value obstacle.userData.type can take: the identifiers of the
\* themes, and none for an obstacle without userData.
ObstacleTypes ==
    {"none"} \cup UNION {{obstacleThemes(themeKeys[t])[i] :
                            i \in 1..Len(obstacleThemes(themeKeys[t]))} :
                         t \in 1..Len(themeKeys)}

\* The types the two branches of main.js 430 and 441 take.
tunnelTypes == {t \in ObstacleTypes : typeIncludes(t, <<"t","u","n","n","e","l">>)}
hoopTypes == {t \in ObstacleTypes : typeIncludes(t, <<"h","o","o","p">>)}

\* A collision rule without the tunnel exception.
collisionDetectedAnyType(px, o) == intersectsBox(px, o)

\* collisionDetected for one obstacle (main.js 428-455)
collisionDetected(px, o) ==
    IF o.type \in tunnelTypes
    THEN FALSE
    ELSE IF o.type \in hoopTypes
         THEN intersectsBox(px, o)
         ELSE intersectsBox(px, o)

\* A collision loop without its break.
RECURSIVE themedCollisionLoopNoBreak(_, _, _, _)
themedCollisionLoopNoBreak(obs, i, px, log) ==
    IF i > Len(obs)
    THEN [over |-> FALSE, log |-> log]
    ELSE LET hit == collisionDetected(px, obs[i])
             log1 == log \o <<Event("test", obs[i].id)>>
                         \o (IF hit THEN <<Event("gameOver", obs[i].id)>> ELSE <<>>)
             rest == themedCollisionLoopNoBreak(obs, i + 1, px, log1)
         IN  [over |-> hit \/ rest.over, log |-> rest.log]

\* The collision loop (main.js 416-465), from index i up; stops at a hit.
RECURSIVE themedCollisionLoop(_, _, _, _)
themedCollisionLoop(obs, i, px, log) ==
    IF i > Len(obs)
    THEN [over |-> FALSE, log |-> log]
    ELSE LET log1 == log \o <<Event("test", obs[i].id)>>
         IN  IF collisionDetected(px, obs[i])
             THEN [over |-> TRUE, log |-> log1 \o <<Event("gameOver", obs[i].id)>>]
             ELSE themedCollisionLoop(obs, i + 1, px, log1)

\* The removal loop (main.js 469-475), from index i down.
RECURSIVE themedRemovalLoop(_, _, _)
themedRemovalLoop(obs, i, log) ==
    IF i = 0
    THEN [obs |-> obs, log |-> log]
    ELSE IF obs[i].z > themedRemovalZ
         THEN themedRemovalLoop(splice(obs, i), i - 1,
                                log \o <<Event("remove", obs[i].id)>>)
         ELSE themedRemovalLoop(obs, i - 1, log)

\* An interval without its floor.
currentSpawnIntervalUnclamped(distance) ==
    baseSpawnInterval
    - (distance \div difficultyStepDistance) * spawnIntervalReductionFactor

\* An interval that grows with the distance.
currentSpawnIntervalGrowing(distance) ==
    baseSpawnInterval
    + (distance \div difficultyStepDistance) * spawnIntervalReductionFactor

\* currentSpawnInterval (main.js 478-481)
currentSpawnInterval(distance) ==
    LET interval == baseSpawnInterval
                    - (distance \div difficultyStepDistance) * spawnIntervalReductionFactor
    IN  IF interval < minSpawnInterval THEN minSpawnInterval ELSE interval

\* A spawn check without the cap on live obstacles.
themedSpawnDueNoCap(currentTime, last, interval, count) ==
    currentTime - last > interval

\* spawn check of the themed loop (main.js 483)
themedSpawnDue(currentTime, last, interval, count) ==
    /\ currentTime - last > interval
    /\ count < maxObstaclesInScene

\* A theme switch that skips a theme.
switchThemeSkip(index, spawned) ==
    IF spawned >= maxObstaclesPerTheme
    THEN [index |-> (index + 2) % Len(themeKeys), spawned |-> 0]
    ELSE [index |-> index, spawned |-> spawned]

\* Theme switching at the head of spawnObstacle (main.js 317-322)
switchTheme(index, spawned) ==
    IF spawned >= maxObstaclesPerTheme
    THEN [index |-> (index + 1) % Len(themeKeys), spawned |-> 0]
    ELSE [index |-> index, spawned |-> spawned]

\* The obstacle a spawn creates from an asset (main.js 335-349, 367-382)
newObstacle(id, file, x, z, half) ==
    [id |-> id, type |-> file, x |-> x, z |-> z, half |-> half]

\* An empty-theme guard that never fires.
noModelsNever(themeModels) == FALSE

\* !themeModels || themeModels.length === 0 (main.js 325)
noModels(themeModels) == Len(themeModels) = 0

\* themeModels[Math.floor(Math.random() * themeModels.length)] (main.js 330);
\* indexing an empty array yields undefined.
pick(themeModels, r) ==
    IF Len(themeModels) = 0 THEN "undefined"
    ELSE themeModels[(r % Len(themeModels)) + 1]

\* A cache that is never hit.
hasNever(file) == FALSE

\* loadedObstacleAssets.has(randomModelFilename) (main.js 333)
has(file) == file \in DOMAIN loadedObstacleAssets

\* spawnObstacle() of the themed script (main.js 315-395) on the live set obs;
\* r, lane and z are its Math.random() draws.
spawnObstacle(obs, r, lane, z) ==
    LET sw == switchTheme(currentThemeIndex, obstaclesSpawnedInCurrentTheme)
        name == themeKeys[sw.index + 1]
        themeModels == themeCatalog[name]
        file == pick(themeModels, r)
        base == [index |-> sw.index, name |-> name, spawned |-> sw.spawned,
                 obs |-> obs, pending |-> pendingLoads, nextId |-> nextId,
                 log |-> <<>>]
    IN  IF noModels(themeModels)
        THEN base
        ELSE IF has(file)
             THEN [base EXCEPT
                     !.spawned = @ + 1,
                     !.obs = push(obs, newObstacle(nextId, file,
                                 themedLanePositions[lane + 1], z,
                                 loadedObstacleAssets[file])),
                     !.nextId = @ + 1,
                     !.log = <<Event("push", nextId)>>]
             ELSE [base EXCEPT
                     !.pending = AddLoad(pendingLoads, [file |-> file, x |-> 0]),
                     !.log = <<Event("load", 0)>>]

\* distanceCovered += playerSpeed * deltaTime (main.js 406-407)
themedDistanceUpdate(distance, deltaTime) == distance + playerSpeed * deltaTime

\* animate() of the themed script (main.js 398-492).  With recurring, frames
\* are not limited in number and the readings that grow without bound are
\* kept relative to the current frame: the clock and the distance are left
\* at their values of the start (a distance past saturation, from which the
\* interval no longer changes), lastSpawnTime moves back by the frame's
\* deltaTime, down to LiveElapsedCap before the clock, so that
\* currentTime - lastSpawnTime is what the script computes, and frames holds
\* the parity of the number of frames.
ThemedAnimate(dt, recurring) ==
    /\ variant = "themed"
    /\ recurring \/ frames < MaxFrames
    /\ LET deltaTime == IF started THEN dt ELSE 0
           distance == themedDistanceUpdate(distanceCovered, deltaTime)
           hit == themedCollisionLoop(obstacles, 1, playerX, <<Event("distance", 0)>>)
           kept == themedRemovalLoop(obstacles, Len(obstacles), hit.log)
           currentTime == clockTime + deltaTime
           interval == currentSpawnInterval(distance)
           due == themedSpawnDue(currentTime, lastSpawnTime, interval, Len(kept.obs))
           spawnTime == IF recurring THEN clockTime ELSE currentTime
           keptSpawnTime ==
               IF recurring
               THEN Max(lastSpawnTime - deltaTime, clockTime - LiveElapsedCap)
               ELSE lastSpawnTime
       IN  /\ started' = TRUE
           /\ frames' = IF recurring THEN (frames + 1) % 2 ELSE frames + 1
           /\ clockTime' = IF recurring THEN clockTime ELSE currentTime
           /\ IF ~gameplayRuns
              THEN /\ frameLog' = <<Event("render", 0)>>
                   /\ UNCHANGED <<isGameOver, distanceCovered, obstacles,
                                  pendingLoads, lastSpawnTime, runFrames,
                                  currentThemeIndex, currentThemeName,
                                  obstaclesSpawnedInCurrentTheme, nextId>>
              ELSE /\ distanceCovered' = IF recurring THEN distanceCovered ELSE distance
                   /\ isGameOver' = hit.over
                   /\ runFrames' = IF recurring THEN runFrames ELSE runFrames + 1
                   /\ IF due
                      THEN \E r \in 0..4, lane \in ThemedLaneSamples,
                              z \in SpawnZSamples :
                           LET sp == spawnObstacle(kept.obs, r, lane, z) IN
                           /\ BagCardinality(sp.pending) <= MaxPending
                           /\ currentThemeIndex' = sp.index
                           /\ currentThemeName' = sp.name
                           /\ obstaclesSpawnedInCurrentTheme' = sp.spawned
                           /\ obstacles' = sp.obs
                           /\ pendingLoads' = sp.pending
                           /\ nextId' = sp.nextId
                           /\ lastSpawnTime' = spawnTime
                           /\ frameLog' = kept.log
                                  \o <<Event("spawnCheck", interval), Event("spawn", 0)>>
                                  \o sp.log \o <<Event("render", 0)>>
                      ELSE /\ obstacles' = kept.obs
                           /\ frameLog' = kept.log
                                  \o <<Event("spawnCheck", interval), Event("render", 0)>>
                           /\ lastSpawnTime' = keptSpawnTime
                           /\ UNCHANGED <<currentThemeIndex, currentThemeName,
                                          obstaclesSpawnedInCurrentTheme,
                                          pendingLoads, nextId>>
    /\ UNCHANGED <<variant, themeCatalog, currentLaneIndex, playerX, loadedObstacleAssets>>

\* A frame of the themed script, of a bounded number of frames.
AnimateThemed(dt) == ThemedAnimate(dt, FALSE)

\* A frame of the themed script, of frames that keep coming.
AnimateThemedLive(dt) == ThemedAnimate(dt, TRUE)

\* A cache with room for one asset.
setAlone(cache, file, half) == [f \in {file} |-> half]

\* loadedObstacleAssets.set(randomModelFilename, gltf.scene) (main.js 364)
set(cache, file, half) ==
    [f \in DOMAIN cache \cup {file} |-> IF f = file THEN half ELSE cache[f]]

\* onLoad of the themed spawnObstacle (main.js 362-388); half is the depth of
\* the loaded asset, the same for every load of one file.
LoadCompleteThemed(req, lane, z, half) ==
    /\ variant = "themed"
    /\ BagIn(req, pendingLoads)
    /\ req.file \in DOMAIN loadedObstacleAssets => half = loadedObstacleAssets[req.file]
    /\ pendingLoads' = DropLoad(pendingLoads, req)
    /\ loadedObstacleAssets' = set(loadedObstacleAssets, req.file, half)
    /\ obstaclesSpawnedInCurrentTheme' = obstaclesSpawnedInCurrentTheme + 1
    /\ obstacles' = push(obstacles,
           newObstacle(nextId, req.file, themedLanePositions[lane + 1], z, half))
    /\ nextId' = nextId + 1
    /\ frameLog' = <<Event("loaded", nextId)>>
    /\ UNCHANGED <<variant, themeCatalog, isGameOver, distanceCovered, currentLaneIndex, playerX,
                   lastSpawnTime, clockTime, currentThemeIndex, currentThemeName,
                   started, frames, runFrames>>

\* onError of the themed spawnObstacle (main.js 390-392)
LoadErrorThemed(req) ==
    /\ variant = "themed"
    /\ BagIn(req, pendingLoads)
    /\ pendingLoads' = onError(pendingLoads, req)
    /\ frameLog' = <<Event("loadError", 0)>>
    /\ UNCHANGED <<variant, themeCatalog, isGameOver, distanceCovered, currentLaneIndex, playerX,
                   obstacles, loadedObstacleAssets, lastSpawnTime, clockTime,
                   currentThemeIndex, currentThemeName,
                   obstaclesSpawnedInCurrentTheme, nextId, started, frames,
                   runFrames>>

\* ============================================================ start
\* The first script right after it is loaded (main.js 30-55), before its own
\* animate(0).
InitFirstFresh ==
    /\ started = FALSE
    /\ currentLaneIndex = 1
    /\ playerX = lanePositions[2]
    /\ obstacles = <<>>
    /\ nextId = 1
    /\ clockTime = 0
    /\ lastSpawnTime = 0
    /\ distanceCovered = 0
    /\ runFrames = 0

\* Numbers of obstacles in flight when the first loop is observed mid-run.
InFlightCounts == {1, 2}

\* Positions of obstacles in flight that are looked at: one frame before
\* touching the player's box, and one frame before the removal threshold.
InFlightZ == {-1100, 9900}

\* An obstacle that has been moved "age" frames since its load completed.
InFlightObstacle(id, x, z) ==
    [id |-> id, type |-> "none", x |-> x, z |-> z, half |-> 500]

\* The first script observed mid-run, InFlightFrames frames after the start,
\* none of which collided: obstacles loaded earlier are older, so the array
\* is ordered by z (largest first); none of them touches the player.
InitFirstInFlight ==
    /\ started = TRUE
    /\ currentLaneIndex = 1
    /\ playerX = lanePositions[currentLaneIndex + 1]
    /\ \E n \in InFlightCounts :
         \E xs \in [1..n -> {lanePositions[i] : i \in 1..Len(lanePositions)}] :
           \E zs \in [1..n -> InFlightZ] :
             /\ \A i \in 1..(n - 1) : zs[i] >= zs[i + 1]
             /\ \A i \in 1..n :
                  zs[i] <= spawnZPosition + (InFlightFrames - 2) * obstacleSpeed
             /\ obstacles = [i \in 1..n |-> InFlightObstacle(i, xs[i], zs[i])]
             /\ nextId = n + 1
    /\ clockTime = InFlightFrames * 1000
    /\ lastSpawnTime = clockTime - 1000
    /\ runFrames = InFlightFrames
    /\ distanceCovered = InFlightFrames * distanceFactor

InitFirst ==
    /\ variant = "first"
    /\ themeCatalog = sourceCatalog
    /\ isGameOver = FALSE
    /\ pendingLoads = EmptyBag
    /\ loadedObstacleAssets = <<>>
    /\ currentThemeIndex = 0
    /\ currentThemeName = "none"
    /\ obstaclesSpawnedInCurrentTheme = 0
    /\ frames = 0
    /\ frameLog = <<>>
    /\ (InitFirstFresh \/ InitFirstInFlight)

\* Numbers of obstacles the themed script has already spawned when it is
\* observed: 0 is the script right after it is loaded (main.js 269-312).
ThemedStarts == {0, 4, 5, 10, 14}

\* The n-th obstacle of a run in which every spawn took the first model of
\* its theme, the left lane and the nearest spawn depth.
StartObstacle(j) ==
    newObstacle(j, obstacleThemes(themeKeys[((j - 1) \div maxObstaclesPerTheme) + 1])[1],
                themedLanePositions[1], -20000, 500)

\* The themed script after n such spawns, one per frame, 3 s apart, each
\* load completed before the next frame; after them, p further frames whose
\* spawn requested the theme's second model, not yet loaded; and then one
\* frame, 1 s later, that spawned nothing.
InitThemed ==
    /\ variant = "themed"
    /\ themeCatalog = sourceCatalog
    /\ isGameOver = FALSE
    /\ currentLaneIndex = 1
    /\ playerX = 0
    /\ frames = 0
    /\ frameLog = <<>>
    /\ \E n \in ThemedStarts, p \in 0..1 :
         /\ p = 1 => n % maxObstaclesPerTheme # 0
         /\ pendingLoads =
                IF p = 0 THEN EmptyBag
                ELSE SetToBag({[file |-> obstacleThemes(themeKeys[(n \div maxObstaclesPerTheme) + 1])[2],
                                x |-> 0]})
         /\ started = (n > 0)
         /\ obstacles = [j \in 1..n |-> StartObstacle(j)]
         /\ nextId = n + 1
         /\ loadedObstacleAssets =
                [f \in {StartObstacle(j).type : j \in 1..n} |-> 500]
         /\ currentThemeIndex = IF n = 0 THEN 0 ELSE (n - 1) \div maxObstaclesPerTheme
         /\ currentThemeName = themeKeys[currentThemeIndex + 1]
         /\ obstaclesSpawnedInCurrentTheme =
                IF n = 0 THEN 0 ELSE ((n - 1) % maxObstaclesPerTheme) + 1
         /\ lastSpawnTime = (n + p) * 3000
         /\ clockTime = IF n = 0 THEN 0 ELSE lastSpawnTime + 1000
         /\ distanceCovered = playerSpeed * clockTime
         /\ runFrames = IF n = 0 THEN 0 ELSE n + p + 2

Init == InitFirst \/ InitThemed

\* Distances from which the difficulty curve is looked at: the start, just
\* before the first step, before 450, before saturation, and far beyond.
DistanceSamples == {0, 140000, 440000, 1940000, 4000000}

\* The themed script observed at one of these distances, every earlier load
\* having failed: the clock reads distance / playerSpeed, and the last spawn
\* was requested one second ago.
InitInterval ==
    /\ variant = "themed"
    /\ themeCatalog = sourceCatalog
    /\ isGameOver = FALSE
    /\ currentLaneIndex = 1
    /\ playerX = 0
    /\ frames = 0
    /\ frameLog = <<>>
    /\ pendingLoads = EmptyBag
    /\ obstacles = <<>>
    /\ nextId = 1
    /\ loadedObstacleAssets = <<>>
    /\ currentThemeIndex = 0
    /\ currentThemeName = themeKeys[1]
    /\ obstaclesSpawnedInCurrentTheme = 0
    /\ \E d \in DistanceSamples :
         /\ distanceCovered = d
         /\ clockTime = d \div playerSpeed
         /\ started = (d > 0)
         /\ lastSpawnTime = IF d = 0 THEN 0 ELSE clockTime - 1000
         /\ runFrames = IF d = 0 THEN 0 ELSE 2

\* Depths handed to the removal pass, relative to the threshold it tests
\* against: the first loop moves an obstacle by obstacleSpeed before the
\* test, the themed loop tests the obstacle where it stands.
RemovalZ ==
    IF variant = "first"
    THEN {removalZPosition - 2 * obstacleSpeed, removalZPosition - obstacleSpeed,
          removalZPosition}
    ELSE {themedRemovalZ - obstacleSpeed, themedRemovalZ,
          themedRemovalZ + obstacleSpeed}

\* Either frame loop about to run its removal pass on a live set of up to
\* MaxLive obstacles standing around the threshold, in the left lane, away
\* from the player.  In the first loop older obstacles are further along,
\* so the array is ordered by z; the themed pass is taken as a function of
\* the array and is given every placement.
\* One frame is looked at, and what follows it.
InitRemoval ==
    /\ variant \in {"first", "themed"}
    /\ themeCatalog = sourceCatalog
    /\ isGameOver = FALSE
    /\ currentLaneIndex = 1
    /\ playerX = 0
    /\ frames = MaxFrames - 1
    /\ frameLog = <<>>
    /\ pendingLoads = EmptyBag
    /\ loadedObstacleAssets = <<>>
    /\ currentThemeIndex = 0
    /\ currentThemeName = IF variant = "first" THEN "none" ELSE themeKeys[1]
    /\ obstaclesSpawnedInCurrentTheme = 0
    /\ started = TRUE
    /\ \E n \in 0..MaxLive : \E zs \in [1..n -> RemovalZ] :
         /\ variant = "first" => \A i \in 1..(n - 1) : zs[i] >= zs[i + 1]
         /\ obstacles =
                [i \in 1..n |->
                    IF variant = "first"
                    THEN InFlightObstacle(i, lanePositions[1], zs[i])
                    ELSE newObstacle(i, obstacleThemes(themeKeys[1])[1],
                                     themedLanePositions[1], zs[i], 500)]
         /\ nextId = n + 1
    /\ clockTime = InFlightFrames * 1000
    /\ lastSpawnTime = clockTime - 1000
    /\ runFrames = InFlightFrames
    /\ distanceCovered = IF variant = "first" THEN InFlightFrames * distanceFactor
                         ELSE playerSpeed * clockTime

\* Values of obstaclesSpawnedInCurrentTheme from which theme switching is
\* looked at: a fresh theme, one below the cap, and the cap.
ThemeCounts == {0, maxObstaclesPerTheme - 1, maxObstaclesPerTheme}

\* The themed script reading the catalogue cat, with a theme and a counter
\* taken from starts (pairs <<index, counter>>): the live set holds the
\* obstacles counted, all of the theme's first model; the first model of
\* every theme is cached; the last spawn was requested a second ago.
InitThemeWith(cat, starts) ==
    /\ variant = "themed"
    /\ themeCatalog = cat
    /\ isGameOver = FALSE
    /\ currentLaneIndex = 1
    /\ playerX = 0
    /\ frames = 0
    /\ frameLog = <<>>
    /\ pendingLoads = EmptyBag
    /\ started = TRUE
    /\ loadedObstacleAssets =
           [f \in {obstacleThemes(themeKeys[t])[1] : t \in 1..Len(themeKeys)} |-> 500]
    /\ \E st \in starts :
         /\ currentThemeIndex = st[1]
         /\ currentThemeName = themeKeys[st[1] + 1]
         /\ obstaclesSpawnedInCurrentTheme = st[2]
         /\ obstacles =
                [j \in 1..st[2] |->
                    newObstacle(j, obstacleThemes(themeKeys[st[1] + 1])[1],
                                themedLanePositions[1], -20000, 500)]
         /\ nextId = st[2] + 1
    /\ lastSpawnTime = 3000
    /\ clockTime = 4000
    /\ distanceCovered = playerSpeed * clockTime
    /\ runFrames = 2

\* Theme switching as a function of the theme index and the counter: every
\* index, the last one included.
InitTheme ==
    InitThemeWith(sourceCatalog, (0..(Len(themeKeys) - 1)) \X ThemeCounts)

\* The themed script reading a catalogue in which one theme has no
\* identifiers, either in that theme or in the theme before it with the
\* counter at the cap, so that the next spawn request switches into it.
InitEmptyTheme ==
    \E e \in 1..Len(themeKeys) :
        InitThemeWith([sourceCatalog EXCEPT ![themeKeys[e]] = <<>>],
                      {<<e - 1, 0>>,
                       <<(e + Len(themeKeys) - 2) % Len(themeKeys), maxObstaclesPerTheme>>,
                       <<(e + Len(themeKeys) - 2) % Len(themeKeys), maxObstaclesPerTheme - 1>>})

\* The themed script late in a run, past the saturation distance, with 14
\* obstacles spawned as in InitThemed and possibly a load in flight; frames
\* keep coming from here.
InitLive ==
    /\ variant = "themed"
    /\ themeCatalog = sourceCatalog
    /\ isGameOver = FALSE
    /\ currentLaneIndex = 1
    /\ playerX = 0
    /\ frames = 0
    /\ frameLog = <<>>
    /\ started = TRUE
    /\ \E p \in 0..1 :
         pendingLoads =
             IF p = 0 THEN EmptyBag
             ELSE SetToBag({[file |-> obstacleThemes(themeKeys[3])[2], x |-> 0]})
    /\ obstacles = [j \in 1..(maxObstaclesInScene - 1) |-> StartObstacle(j)]
    /\ nextId = maxObstaclesInScene
    /\ loadedObstacleAssets =
           [f \in {StartObstacle(j).type : j \in 1..(maxObstaclesInScene - 1)} |-> 500]
    /\ currentThemeIndex = 2
    /\ currentThemeName = themeKeys[3]
    /\ obstaclesSpawnedInCurrentTheme = maxObstaclesPerTheme - 1
    /\ distanceCovered = 2000000
    /\ clockTime = distanceCovered \div playerSpeed
    /\ lastSpawnTime = clockTime - 1000
    /\ runFrames = 0

Requests == BagToSet(pendingLoads)

Next ==
    \/ \E key \in Keys : KeyDown(key)
    \/ \E dt \in FrameDeltas : AnimateFirst(dt)
    \/ \E req \in Requests, half \in HalfDepths : LoadCompleteFirst(req, half)
    \/ \E req \in Requests : LoadErrorFirst(req)
    \/ \E dt \in FrameDeltas : AnimateThemed(dt)
    \/ \E req \in Requests, lane \in ThemedLaneSamples,
          z \in SpawnZSamples, half \in HalfDepths :
          LoadCompleteThemed(req, lane, z, half)
    \/ \E req \in Requests : LoadErrorThemed(req)

Spec == Init /\ [][Next]_vars

NextThemed ==
    \/ \E dt \in FrameDeltas : AnimateThemed(dt)
    \/ \E req \in Requests, lane \in ThemedLaneSamples,
          z \in SpawnZSamples, half \in HalfDepths :
          LoadCompleteThemed(req, lane, z, half)
    \/ \E req \in Requests : LoadErrorThemed(req)

\* The themed script along the difficulty curve.
SpecInterval == InitInterval /\ [][NextThemed]_vars

SpecRemoval == InitRemoval /\ [][Next]_vars

SpecTheme == InitTheme /\ [][NextThemed]_vars

SpecEmptyTheme == InitEmptyTheme /\ [][NextThemed]_vars

NextLive ==
    \/ \E dt \in FrameDeltas : AnimateThemedLive(dt)
    \/ \E req \in Requests, lane \in ThemedLaneSamples,
          z \in SpawnZSamples, half \in HalfDepths :
          LoadCompleteThemed(req, lane, z, half)
    \/ \E req \in Requests : LoadErrorThemed(req)

\* The themed script with frames that keep being processed: animate()
\* re-registers itself with requestAnimationFrame on every call (main.js 400).
SpecLive ==
    /\ InitLive
    /\ [][NextLive]_vars
    /\ WF_vars(\E dt \in FrameDeltas : AnimateThemedLive(dt))

\* =========================================================== claims
\* Positions in frameLog of the events named op.
At(op) == {k \in DOMAIN frameLog : frameLog[k].op = op}

\* The last callback was a frame that ran the gameplay branch.
RanGameplay == At("distance") # {}

\* No event named in ops follows the game-over event of the last frame.
NothingAfterGameOver(ops) ==
    \A k \in At("gameOver") : \A j \in DOMAIN frameLog :
        j > k => frameLog[j].op \notin ops

\* A step in which no spawn request is issued, no obstacle present before
\* and after it changes position, and distanceCovered is unchanged.
FrozenStep ==
    /\ distanceCovered' = distanceCovered
    /\ \A k \in DOMAIN frameLog' : frameLog'[k].op \notin {"spawn", "move", "distance"}
    /\ \A r \in BagToSet(pendingLoads') : CopiesIn(r, pendingLoads') <= CopiesIn(r, pendingLoads)
    /\ \A i \in DOMAIN obstacles : \A j \in DOMAIN obstacles' :
          obstacles[i].id = obstacles'[j].id =>
              /\ obstacles'[j].z = obstacles[i].z
              /\ obstacles'[j].x = obstacles[i].x

\* C1 as stated: once isGameOver is set, no spawn request, no obstacle motion
\* and no distance change, neither in the rest of that frame nor in any
\* later frame.
C1_AsStated ==
    /\ [] NothingAfterGameOver({"spawn", "move", "distance"})
    /\ [][isGameOver => FrozenStep]_vars

\* C1 (amended): in every step taken once isGameOver is true no spawn request
\* is issued, no obstacle changes position and distanceCovered is unchanged;
\* in the rest of the frame that set isGameOver no obstacle is moved, the
\* first loop issues no spawn request (but still adds its distance
\* increment) and the themed loop leaves distanceCovered alone (but still
\* runs its spawn check).
C1_FrozenAfterGameOver ==
    /\ [] /\ NothingAfterGameOver({"move"})
          /\ variant = "first" => NothingAfterGameOver({"spawn"})
          /\ variant = "themed" => NothingAfterGameOver({"distance"})
    /\ [][isGameOver => FrozenStep]_vars

\* A frame has been processed after the game was over.
C1_Witness == isGameOver /\ frameLog = <<Event("render", 0)>>

\* An obstacle whose collision is the one the last frame reported: it
\* overlaps the player and is not classified as a tunnel.
QualifyingCollision ==
    \E k \in At("gameOver") : \E i \in DOMAIN obstacles :
        /\ obstacles[i].id = frameLog[k].arg
        /\ intersectsBox(playerX, obstacles[i])
        /\ ~typeIncludes(obstacles[i].type, <<"t","u","n","n","e","l">>)

\* C2: isGameOver starts false, becomes true only in a frame that detected a
\* qualifying collision, and is never set back to false by any step.
C2_GameOverOnceAndForAll ==
    /\ ~isGameOver
    /\ [][(~isGameOver /\ isGameOver') => QualifyingCollision']_vars
    /\ [][isGameOver => isGameOver']_vars

\* The game is over, and frames, keys or loads have followed.
C2_Witness == isGameOver /\ At("gameOver") = {}

\* C3: currentLaneIndex stays within [0, lanePositions.length - 1]; ArrowLeft
\* at index 0 and ArrowRight at the last index leave it unchanged.
C3_LaneIndexInRange ==
    /\ currentLaneIndex \in 0..(Len(lanePositions) - 1)
    /\ frameLog = <<Event("ArrowLeft", 0)>> => currentLaneIndex = 0
    /\ frameLog = <<Event("ArrowRight", Len(lanePositions) - 1)>>
           => currentLaneIndex = Len(lanePositions) - 1

\* ArrowLeft was pressed at index 0 while the game was running.
C3_Witness ==
    /\ variant = "first"
    /\ ~isGameOver
    /\ frameLog = <<Event("ArrowLeft", 0)>>

\* The identifiers the themes hold whose name contains "tunnel" in any case,
\* and those that contain "hoop".
TunnelIdentifiers ==
    {"CoveredTunnel.glb", "TunnelBendLarge.glb", "TunnelBendSmall.glb", "tunnelline.glb"}
HoopIdentifiers == {"smallhoop.glb", "largehoop.glb"}

\* The obstacles the last frame created itself, after its collision check.
PushedByFrame == {frameLog[k].arg : k \in At("push")}

\* C4: in a frame's collision check an overlapping obstacle classified as
\* tunnel never sets isGameOver, and an overlapping obstacle classified as
\* hoop or default sets it in that frame.
C4_TunnelsPassOthersCollide ==
    RanGameplay =>
        /\ \A k \in At("gameOver") : \A i \in DOMAIN obstacles :
              obstacles[i].id = frameLog[k].arg =>
                  /\ obstacles[i].type \notin TunnelIdentifiers
                  /\ intersectsBox(playerX, obstacles[i])
        /\ (\E i \in DOMAIN obstacles :
              /\ obstacles[i].id \notin PushedByFrame
              /\ obstacles[i].type \notin TunnelIdentifiers
              /\ intersectsBox(playerX, obstacles[i]))
           => isGameOver
        /\ (\A i \in DOMAIN obstacles :
              intersectsBox(playerX, obstacles[i]) /\ obstacles[i].id \notin PushedByFrame
                  => obstacles[i].type \in TunnelIdentifiers)
           => ~isGameOver

\* A frame has tested a tunnel whose name needs the case folded and that
\* overlaps the player, and the game goes on.
C4_Witness ==
    /\ RanGameplay
    /\ ~isGameOver
    /\ \E i \in DOMAIN obstacles : \E k \in At("test") :
          /\ frameLog[k].arg = obstacles[i].id
          /\ obstacles[i].type = "CoveredTunnel.glb"
          /\ intersectsBox(playerX, obstacles[i])

\* The interval the formula of section 4.3 gives at a distance.
ClaimedInterval(d) ==
    Max(baseSpawnInterval - (d \div difficultyStepDistance) * spawnIntervalReductionFactor,
        minSpawnInterval)

\* The intervals the last themed frame used in its spawn check.
UsedIntervals ==
    IF variant = "themed" THEN {frameLog[k].arg : k \in At("spawnCheck")} ELSE {}

\* C5: the interval a frame uses is max(base - floor(distance / step) *
\* reduction, min) at the distance it has just accumulated; it is 1.7 s at
\* distance 450.
C5_IntervalFormula ==
    \A used \in UsedIntervals :
        /\ used = ClaimedInterval(distanceCovered)
        /\ distanceCovered = 450000 => used = 1700

\* A frame computed its interval at distance 450 exactly.
C5_Witness == distanceCovered = 450000 /\ UsedIntervals = {1700}

\* The least distance at which the interval has reached its floor.
SaturationDistance ==
    (((baseSpawnInterval - minSpawnInterval) \div spawnIntervalReductionFactor) + 1)
    * difficultyStepDistance

\* Distances a third of a difficulty step apart, up to twice the saturation.
DistanceGrid ==
    {k * (difficultyStepDistance \div 3) :
        k \in 0..((6 * SaturationDistance) \div difficultyStepDistance)}

\* C6: the interval never grows with the distance, stays within
\* [minInterval, baseInterval], and is minInterval from the saturation
\* distance on.
C6_IntervalMonotone ==
    /\ [] /\ \A used \in UsedIntervals :
               /\ used >= minSpawnInterval
               /\ used <= baseSpawnInterval
               /\ distanceCovered >= SaturationDistance => used = minSpawnInterval
               /\ \A d \in DistanceGrid :
                     /\ d <= distanceCovered => currentSpawnInterval(d) >= used
                     /\ d >= distanceCovered => currentSpawnInterval(d) <= used
    /\ [][\A a \in UsedIntervals : \A b \in UsedIntervals' : b <= a]_vars

\* A frame has used the floor interval, past the saturation distance.
C6_Witness ==
    /\ distanceCovered >= SaturationDistance
    /\ UsedIntervals = {minSpawnInterval}

\* The last callback was a frame of the themed loop that ran its gameplay.
ThemedFrame == variant = "themed" /\ RanGameplay

\* C7: a themed frame issues a spawn request only if the time since
\* lastSpawnTime is strictly greater than the current interval and fewer than
\* maxObstaclesInScene obstacles are live at that point; otherwise it issues
\* none and leaves lastSpawnTime unchanged.
C7_SpawnOnlyWhenDue ==
    [][ThemedFrame' =>
          LET live == Len(obstacles') - Cardinality(PushedByFrame')
              due == /\ clockTime' - lastSpawnTime > ClaimedInterval(distanceCovered')
                     /\ live < maxObstaclesInScene
          IN  /\ At("spawn")' # {} => due
              /\ ~due => /\ At("spawn")' = {}
                         /\ At("load")' = {}
                         /\ At("push")' = {}
                         /\ pendingLoads' = pendingLoads
                         /\ lastSpawnTime' = lastSpawnTime]_vars

\* A frame found the interval exceeded but the scene full, and did not spawn.
C7_Witness ==
    /\ ThemedFrame
    /\ At("spawn") = {}
    /\ Len(obstacles) >= maxObstaclesInScene
    /\ clockTime - lastSpawnTime > ClaimedInterval(distanceCovered)

\* The theme an identifier belongs to.
ThemeOf(type) ==
    CHOOSE t \in 1..Len(themeKeys) :
        \E i \in 1..Len(obstacleThemes(themeKeys[t])) :
            obstacleThemes(themeKeys[t])[i] = type

\* The obstacles the last callback appended to the live set.
Appended ==
    {i \in DOMAIN obstacles :
        \E k \in At("push") \cup At("loaded") : frameLog[k].arg = obstacles[i].id}

\* C8 as stated: with a cap of 5 per theme, under every interleaving of
\* spawn requests and load completions the obstacle spawned after five of
\* the active theme is drawn from, and counted toward, the next theme, and no
\* theme contributes more than 5 consecutive spawns.
C8_AsStated ==
    variant = "themed" =>
        /\ obstaclesSpawnedInCurrentTheme <= maxObstaclesPerTheme
        /\ \A i \in Appended : themeKeys[ThemeOf(obstacles[i].type)] = currentThemeName
        /\ \A i \in DOMAIN obstacles :
              i + maxObstaclesPerTheme \in DOMAIN obstacles =>
                  \E j \in i..(i + maxObstaclesPerTheme) :
                      ThemeOf(obstacles[j].type) # ThemeOf(obstacles[i].type)

\* The threshold past which the running script removes an obstacle.
RemovalThreshold == IF variant = "first" THEN removalZPosition ELSE themedRemovalZ

\* C9: while the game is running, no obstacle past the removal threshold is
\* in the live set when a callback has ended: a frame removes in the same
\* pass every obstacle it finds past the threshold, so none is there at the
\* end of the following frame.
C9_PastThresholdRemoved ==
    ~isGameOver =>
        /\ \A i \in DOMAIN obstacles : obstacles[i].z <= RemovalThreshold
        /\ \A k \in At("remove") : \A i \in DOMAIN obstacles :
              obstacles[i].id # frameLog[k].arg

\* A frame has moved an obstacle past the threshold and removed it, and the
\* game goes on.
C9_Witness == ~isGameOver /\ At("remove") # {} /\ At("move") # {}

\* C10: while no frame has collided, distanceCovered is the sum of the
\* per-frame increments from 0 (distanceFactor per frame in the first loop,
\* playerSpeed * deltaTime in the themed loop), and it never decreases.
C10_DistanceIsSumOfIncrements ==
    /\ [](~isGameOver =>
            /\ variant = "first" => distanceCovered = runFrames * distanceFactor
            /\ variant = "themed" => distanceCovered = playerSpeed * clockTime)
    /\ [][distanceCovered' >= distanceCovered]_vars

\* Two frames of the first loop have run from the start without a collision.
C10_Witness ==
    /\ variant = "first"
    /\ ~isGameOver
    /\ RanGameplay
    /\ runFrames = 2
    /\ distanceCovered = 2 * distanceFactor

\* The step is a key event.
KeyStep == Len(frameLog') = 1 /\ frameLog'[1].op \in Keys

\* C11: a key event received while isGameOver is true leaves
\* currentLaneIndex and every other game-state variable unchanged.
C11_KeysIgnoredAfterGameOver ==
    [][(isGameOver /\ KeyStep) =>
          UNCHANGED <<variant, themeCatalog, isGameOver, distanceCovered, currentLaneIndex,
                      playerX, obstacles, pendingLoads, loadedObstacleAssets,
                      lastSpawnTime, clockTime, currentThemeIndex,
                      currentThemeName, obstaclesSpawnedInCurrentTheme, nextId,
                      started, frames, runFrames>>]_vars

\* ArrowLeft arrived in the middle lane after the game was over, and the
\* player is still in the middle lane.
C11_Witness ==
    /\ isGameOver
    /\ frameLog = <<Event("ArrowLeft", 1)>>
    /\ currentLaneIndex = 1

\* The step is a frame.
FrameStep == frames' = frames + 1

\* C12: a frame that starts with isGameOver true leaves the live obstacle
\* set, every obstacle position, distanceCovered, lastSpawnTime, the player
\* position, the theme index and the theme counter unchanged, and requests
\* no asset load.
C12_GameOverFrameChangesNothing ==
    [][(isGameOver /\ FrameStep) =>
          /\ UNCHANGED <<obstacles, distanceCovered, lastSpawnTime, playerX,
                         currentLaneIndex, currentThemeIndex, currentThemeName,
                         obstaclesSpawnedInCurrentTheme, pendingLoads,
                         loadedObstacleAssets, isGameOver>>
          /\ At("load")' = {}
          /\ At("spawn")' = {}]_vars

\* A frame ran after the game was over at a time when a spawn was due and
\* obstacles were live, and spawned nothing.
C12_Witness ==
    /\ isGameOver
    /\ frameLog = <<Event("render", 0)>>
    /\ obstacles # <<>>
    /\ clockTime - lastSpawnTime > spawnInterval

\* C13: the failure step of an asset load adds no obstacle, leaves
\* isGameOver, distanceCovered, the lane index, the theme index, the theme
\* counter and the asset cache unchanged, and puts no new request in flight:
\* the failed request is gone and nothing replaces it.
C13_LoadFailureYieldsNothing ==
    [][At("loadError")' # {} =>
          /\ UNCHANGED <<obstacles, isGameOver, distanceCovered,
                         currentLaneIndex, currentThemeIndex, currentThemeName,
                         obstaclesSpawnedInCurrentTheme, loadedObstacleAssets,
                         lastSpawnTime, nextId>>
          /\ BagCardinality(pendingLoads') = BagCardinality(pendingLoads) - 1
          /\ \A r \in BagToSet(pendingLoads') :
                CopiesIn(r, pendingLoads') <= CopiesIn(r, pendingLoads)]_vars

\* A load has failed and no request is in flight any more.
C13_Witness == At("loadError") # {} /\ BagCardinality(pendingLoads) = 0

\* The requests the step put in flight, and the obstacles it created.
NewRequests ==
    {q \in BagToSet(pendingLoads') : CopiesIn(q, pendingLoads') > CopiesIn(q, pendingLoads)}
NewObstacles == {i \in DOMAIN obstacles' : obstacles'[i].id >= nextId}

\* C14: a spawn request for a cached identifier appends its obstacle within
\* the requesting frame and issues no load; a spawn request for an uncached
\* identifier appends nothing in that frame, and its obstacle, exactly one,
\* is appended by the separate completion step of its load.
C14_CachedNowUncachedLater ==
    [][/\ (ThemedFrame' /\ At("spawn")' # {}) =>
             \/ /\ At("push")' # {}
                /\ NewRequests = {}
                /\ pendingLoads' = pendingLoads
                /\ Cardinality(NewObstacles) = 1
                /\ \A i \in NewObstacles :
                      /\ i = Len(obstacles')
                      /\ obstacles'[i].type \in DOMAIN loadedObstacleAssets
             \/ /\ At("load")' # {}
                /\ NewObstacles = {}
                /\ Cardinality(NewRequests) = 1
                /\ BagCardinality(pendingLoads') = BagCardinality(pendingLoads) + 1
                /\ \A q \in NewRequests : q.file \notin DOMAIN loadedObstacleAssets
       /\ (variant = "themed" /\ At("loaded")' # {}) =>
             /\ Len(obstacles') = Len(obstacles) + 1
             /\ SubSeq(obstacles', 1, Len(obstacles)) = obstacles
             /\ BagCardinality(pendingLoads') = BagCardinality(pendingLoads) - 1
             /\ CopiesIn([file |-> obstacles'[Len(obstacles')].type, x |-> 0], pendingLoads')
                   = CopiesIn([file |-> obstacles'[Len(obstacles')].type, x |-> 0], pendingLoads) - 1
             /\ frames' = frames]_vars

\* A themed frame requested an identifier that was not in the non-empty
\* cache, and appended nothing.
C14_Witness ==
    /\ ThemedFrame
    /\ At("load") # {}
    /\ At("push") = {}
    /\ DOMAIN loadedObstacleAssets # {}

\* C15: a load that completes while isGameOver is true still appends its
\* obstacle, and that step leaves isGameOver, distanceCovered, the lane index
\* and every previously live obstacle unchanged.
C15_CompletionAfterGameOver ==
    [][(isGameOver /\ At("loaded")' # {}) =>
          /\ Len(obstacles') = Len(obstacles) + 1
          /\ SubSeq(obstacles', 1, Len(obstacles)) = obstacles
          /\ UNCHANGED <<isGameOver, distanceCovered, currentLaneIndex, playerX>>]_vars

\* A load has completed after the game was over.
C15_Witness == isGameOver /\ At("loaded") # {} /\ Len(obstacles) >= 2

\* The positions in the last callback's log of the events named in ops.
AtAny(ops) == {k \in DOMAIN frameLog : frameLog[k].op \in ops}

\* Every event of as comes before every event of bs.
Before(as, bs) == \A a \in AtAny(as) : \A b \in AtAny(bs) : a < b

Same(k, op, j) ==
    /\ k \in DOMAIN frameLog
    /\ frameLog[k] = Event(op, frameLog[j].arg)

\* The order of a gameplay frame of the first loop.
FirstFrameOrder ==
    LET n == Len(frameLog) IN
    /\ frameLog[1].op = "snap"
    /\ frameLog[2].op = "spawnCheck"
    /\ frameLog[n - 1].op = "distance"
    /\ frameLog[n].op = "render"
    /\ Cardinality(At("snap")) = 1
    /\ Cardinality(At("spawnCheck")) = 1
    /\ Cardinality(At("distance")) = 1
    /\ At("spawn") \subseteq {3}
    /\ \A k \in At("move") : Same(k + 1, "test", k)
    /\ \A k \in At("test") : Same(k - 1, "move", k)
    /\ \A k \in At("remove") : Same(k - 1, "test", k)
    /\ \A k \in At("gameOver") : Same(k - 1, "test", k) /\ k = n - 2
    /\ \A j, k \in At("move") : j < k => frameLog[j].arg > frameLog[k].arg
    /\ AtAny({"push", "load"}) = {}

\* The order of a gameplay frame of the themed loop.
ThemedFrameOrder ==
    LET n == Len(frameLog) IN
    /\ frameLog[1].op = "distance"
    /\ frameLog[n].op = "render"
    /\ Cardinality(At("distance")) = 1
    /\ Cardinality(At("spawnCheck")) = 1
    /\ AtAny({"snap", "move"}) = {}
    /\ Before({"distance"}, {"test"})
    /\ Before({"test", "gameOver"}, {"remove"})
    /\ Before({"test", "gameOver", "remove"}, {"spawnCheck"})
    /\ \A k \in At("spawn") : k - 1 \in At("spawnCheck")
    /\ \A k \in AtAny({"push", "load"}) : k - 1 \in At("spawn")
    /\ \A k \in At("gameOver") : Same(k - 1, "test", k) /\ Before({"test"}, {"gameOver"})
    /\ \A j, k \in At("test") : j < k => frameLog[j].arg < frameLog[k].arg

C17_AsStated ==
    [][(FrameStep /\ ~isGameOver) =>
          \A i \in DOMAIN obstacles : \A j \in DOMAIN obstacles' :
              obstacles'[j].id = obstacles[i].id =>
                  obstacles'[j].z = obstacles[i].z + obstacleSpeed]_vars

\* C18 as stated: isGameOver, distanceCovered, currentLaneIndex,
\* currentThemeIndex, obstaclesSpawnedInCurrentTheme and lastSpawnTime are
\* changed only by frames and key events; the completion or the failure of
\* an asset load leaves every one of them unchanged.
C18_AsStated ==
    [][(At("loaded")' # {} \/ At("loadError")' # {}) =>
          UNCHANGED <<isGameOver, distanceCovered, currentLaneIndex,
                      currentThemeIndex, obstaclesSpawnedInCurrentTheme,
                      lastSpawnTime>>]_vars

\* The obstacle overlaps the player and is not a tunnel.
Qualifies(o) == intersectsBox(playerX, o) /\ o.type \notin TunnelIdentifiers

\* The obstacles the last frame tested for collision.
Tested == {frameLog[k].arg : k \in At("test")}

\* C19: the collision loop of a frame stops at the first obstacle with a
\* qualifying collision: the game-over event follows the test of that
\* obstacle, no obstacle tested before it qualified, none is tested or moved
\* after it, and a frame has at most one game-over event.
C19_LoopStopsAtFirstCollision ==
    /\ Cardinality(At("gameOver")) <= 1
    /\ \A k \in At("gameOver") :
          /\ Same(k - 1, "test", k)
          /\ \A j \in AtAny({"test", "move"}) : j < k
          /\ \A j \in At("test") : \A i \in DOMAIN obstacles :
                (j < k - 1 /\ obstacles[i].id = frameLog[j].arg) =>
                    ~Qualifies(obstacles[i])

\* A frame ended the game on one obstacle while another obstacle that also
\* overlaps the player was live and was not tested.
C19_Witness ==
    /\ At("gameOver") # {}
    /\ \E i \in DOMAIN obstacles :
          /\ obstacles[i].id \notin Tested
          /\ obstacles[i].id \notin PushedByFrame
          /\ Qualifies(obstacles[i])

\* The live set a frame should leave behind: the obstacles it found, those it
\* moved taken at their new depth, without the ones past the threshold.
ExpectedAfterRemoval ==
    LET moved == {frameLog'[k].arg : k \in At("move")'}
        after == [k \in DOMAIN obstacles |->
                    IF obstacles[k].id \in moved
                    THEN [obstacles[k] EXCEPT !.z = @ + obstacleSpeed]
                    ELSE obstacles[k]]
    IN  SelectSeq(after, LAMBDA o : o.z <= RemovalThreshold)

\* C20: the removal pass of a frame removes exactly the obstacles whose z
\* exceeds the removal threshold: the live set it leaves is made of all and
\* only the earlier obstacles at or below the threshold, in their earlier
\* order, wherever and however many the obstacles to remove are.
C20_RemovalExact ==
    [][(FrameStep /\ ~isGameOver) =>
          /\ SubSeq(obstacles', 1, Len(obstacles') - Cardinality(NewObstacles))
                = ExpectedAfterRemoval
          /\ Cardinality(At("remove")')
                = Len(obstacles) - Len(ExpectedAfterRemoval)]_vars

\* A themed frame removed the first and the third obstacle and kept the
\* second.
C20_Witness ==
    /\ ThemedFrame
    /\ {frameLog[k].arg : k \in At("remove")} = {1, 3}
    /\ \E i \in DOMAIN obstacles : obstacles[i].id = 2

\* C22: currentLaneIndex is changed only by an ArrowLeft or ArrowRight key
\* event received while the game is running; such an event changes it by
\* exactly 1, or by 0 at a boundary; frames, load callbacks and every other
\* key leave it unchanged.
C22_LaneChangedOnlyByArrows ==
    [][/\ currentLaneIndex' # currentLaneIndex =>
             /\ KeyStep
             /\ ~isGameOver
             /\ \/ /\ frameLog'[1].op = "ArrowLeft"
                   /\ currentLaneIndex' = currentLaneIndex - 1
                \/ /\ frameLog'[1].op = "ArrowRight"
                   /\ currentLaneIndex' = currentLaneIndex + 1
       /\ (KeyStep /\ ~isGameOver /\ frameLog'[1].op = "ArrowLeft") =>
             currentLaneIndex' = IF currentLaneIndex = 0 THEN 0
                                 ELSE currentLaneIndex - 1
       /\ (KeyStep /\ ~isGameOver /\ frameLog'[1].op = "ArrowRight") =>
             currentLaneIndex' = IF currentLaneIndex = Len(lanePositions) - 1
                                 THEN currentLaneIndex
                                 ELSE currentLaneIndex + 1]_vars

\* Another key than the arrows arrived while the game was running and the
\* player was in the middle lane, where it still is.
C22_Witness ==
    /\ ~isGameOver
    /\ frameLog = <<Event("a", 1)>>
    /\ currentLaneIndex = 1

\* C24 as stated: in every reachable state the live set holds at most
\* maxObstaclesInScene obstacles, whatever the interleaving of frames and
\* load completions.
C24_AsStated == variant = "themed" => Len(obstacles) <= maxObstaclesInScene

\* C26: the asset cache only grows: an identifier enters it only in the
\* successful completion of a load of that identifier, no identifier ever
\* leaves it, and a spawn request for a cached identifier puts no load in
\* flight.
C26_CacheOnlyGrows ==
    [][/\ \A f \in DOMAIN loadedObstacleAssets :
             /\ f \in DOMAIN loadedObstacleAssets'
             /\ loadedObstacleAssets'[f] = loadedObstacleAssets[f]
       /\ \A f \in DOMAIN loadedObstacleAssets' \ DOMAIN loadedObstacleAssets :
             /\ At("loaded")' # {}
             /\ obstacles'[Len(obstacles')].type = f
             /\ CopiesIn([file |-> f, x |-> 0], pendingLoads) > 0
             /\ CopiesIn([file |-> f, x |-> 0], pendingLoads')
                   = CopiesIn([file |-> f, x |-> 0], pendingLoads) - 1
       /\ \A q \in NewRequests : q.file \notin DOMAIN loadedObstacleAssets]_vars

\* A second asset has entered the cache, and a frame then spawned a cached
\* identifier without a load.
C26_Witness ==
    /\ Cardinality(DOMAIN loadedObstacleAssets) >= 2
    /\ ThemedFrame
    /\ At("push") # {}
    /\ At("load") = {}

\* C21: currentThemeIndex is always a valid index into the theme list and
\* currentThemeName the theme at that index; the index changes only inside a
\* spawn request made with obstaclesSpawnedInCurrentTheme at or above
\* maxObstaclesPerTheme, which advances it by one position cyclically and
\* restarts the counter from 0 (so that it counts only what that request
\* itself appends).
C21_ThemeRotation ==
    /\ [](variant = "themed" =>
            /\ currentThemeIndex \in 0..(Len(themeKeys) - 1)
            /\ currentThemeName = themeKeys[currentThemeIndex + 1])
    /\ [][/\ (currentThemeIndex' # currentThemeIndex
              \/ currentThemeName' # currentThemeName) =>
                /\ FrameStep
                /\ At("spawn")' # {}
                /\ obstaclesSpawnedInCurrentTheme >= maxObstaclesPerTheme
                /\ currentThemeIndex' = (currentThemeIndex + 1) % Len(themeKeys)
                /\ obstaclesSpawnedInCurrentTheme' = Cardinality(At("push")')
          /\ (At("spawn")' # {}
              /\ obstaclesSpawnedInCurrentTheme >= maxObstaclesPerTheme) =>
                currentThemeIndex' # currentThemeIndex]_vars

\* A spawn request made in the last theme at the cap has wrapped around to
\* the first theme.
C21_Witness ==
    /\ ThemedFrame
    /\ At("spawn") # {}
    /\ currentThemeIndex = 0
    /\ obstaclesSpawnedInCurrentTheme <= 1
    /\ \E i \in DOMAIN obstacles :
          obstacles[i].type = obstacleThemes(themeKeys[Len(themeKeys)])[1]

\* C23: a spawn request made while the active theme has no identifiers adds
\* no obstacle, requests no asset load and does not increment the theme
\* counter (which the request leaves as it was, or at 0 if it switched into
\* the empty theme).
C23_EmptyThemeSpawnsNothing ==
    [][(ThemedFrame' /\ At("spawn")' # {} /\ themeCatalog[currentThemeName'] = <<>>) =>
          /\ NewObstacles = {}
          /\ NewRequests = {}
          /\ pendingLoads' = pendingLoads
          /\ AtAny({"push", "load"})' = {}
          /\ obstaclesSpawnedInCurrentTheme' =
                IF currentThemeIndex' # currentThemeIndex THEN 0
                ELSE obstaclesSpawnedInCurrentTheme]_vars

\* A spawn request has switched into a theme without identifiers and has
\* produced nothing.
C23_Witness ==
    /\ ThemedFrame
    /\ At("spawn") # {}
    /\ themeCatalog[currentThemeName] = <<>>
    /\ obstaclesSpawnedInCurrentTheme = 0
    /\ Len(obstacles) = maxObstaclesPerTheme

\* The obstacle with this identity is in the live set.
Live(id) == \E i \in DOMAIN obstacles : obstacles[i].id = id

\* Identities of the obstacles a run can create.
LiveIds == 1..(maxObstaclesInScene + MaxPending + 1)

\* C25 as stated: with frames that keep being processed, every obstacle in
\* the live set is eventually removed from it, or the game is eventually
\* over.
C25_AsStated == \A id \in LiveIds : Live(id) ~> (~Live(id) \/ isGameOver)

====
